---- MODULE Spec2Model ----
(***************************************************************************)
(* knockknock/email_sender.py: the email_sender decorator.                 *)
(*                                                                         *)
(* email_sender(recipient_emails, sender_email) builds one yagmail handle  *)
(* and returns a decorator; every call of the decorated function runs      *)
(* wrapper_sender, which reads RANK from os.environ, mails "started" to    *)
(* every recipient when it is the master process, runs the function, and   *)
(* mails "succeeded" or "crashed".  The mail transport (yag_sender.send),  *)
(* the wrapped function and str(value) are the environment: each may       *)
(* return or raise.  Python indexes recipient_emails from 0; the model     *)
(* indexes it from 1.                                                      *)
(***************************************************************************)
EXTENDS Integers, Sequences, FiniteSets, TLC

VARIABLES
    recipient_emails,   \* closure: the list given to email_sender
    sender_email,       \* closure: the sender given to email_sender, or None
    yag_sender,         \* closure: the address the yagmail handle is bound to
    setup,              \* what the caller of email_sender observes
    environ,            \* os.environ restricted to the key RANK: a set of <<key, value>>
    pc,                 \* position of wrapper_sender
    master_process,     \* local of wrapper_sender
    host_name,          \* local of wrapper_sender
    contents,           \* local of wrapper_sender: the body being mailed
    i,                  \* loop index of the send loop in progress
    value,              \* local: what func returned
    ex,                 \* local: the exception bound by "except Exception as ex"
    result,             \* what the caller of wrapper_sender observes
    trace,              \* per invocation: mail sends and func entry/exit, in order
    func_calls,         \* per invocation: how often func was invoked
    func_outcome,       \* per invocation: what func did
    entry_environ,      \* per invocation: os.environ as read at call entry
    prev_master,        \* master_process of the previous invocation, "none" before it
    calls               \* number of invocations of wrapper_sender so far

vars == <<recipient_emails, sender_email, yag_sender, setup, environ, pc,
          master_process, host_name, contents, i, value, ex, result, trace, func_calls,
          func_outcome, entry_environ, prev_master, calls>>

----------------------------------------------------------------------------
(* Bounds and input sets *)

MaxRecipients == 2
MaxCalls == 2

Addresses == {"a@x.com", "b@x.com"}
Senders == {"s@x.com"}
LibraryUsers == {"cfg@x.com"}
NoneVal == "<None>"
Host == "host"

RecipientLists == UNION {[1..n -> Addresses] : n \in 0..MaxRecipients}

\* Values of RANK, as strings of characters.
RankStrings == { <<"0">>, <<"1">>, <<"0", "0">>, <<"-", "0">>, <<"-", "1">>, <<>>, <<"x">> }

Environs == {{}} \cup {{<<"RANK", r>>} : r \in RankStrings}

\* Return values of func; str() of the last one raises.
Values == {"V1", "V2", "Unprintable"}

NoExc == [type |-> "", msg |-> ""]

\* Exceptions func may raise.  KeyboardInterrupt derives from BaseException
\* only; the others derive from Exception.
FuncExceptions == { [type |-> "ZeroDivisionError", msg |-> "division by zero"],
                    [type |-> "RuntimeError", msg |-> "boom"],
                    [type |-> "KeyboardInterrupt", msg |-> ""] }

BaseOnlyTypes == {"KeyboardInterrupt", "SystemExit", "GeneratorExit"}

----------------------------------------------------------------------------
(* Python semantics used by the wrapper *)

IsDigit(c) == c \in {"0", "1", "2", "3", "4", "5", "6", "7", "8", "9"}

DigitVal(c) ==
    CASE c = "0" -> 0 [] c = "1" -> 1 [] c = "2" -> 2 [] c = "3" -> 3
      [] c = "4" -> 4 [] c = "5" -> 5 [] c = "6" -> 6 [] c = "7" -> 7
      [] c = "8" -> 8 [] c = "9" -> 9

IsSign(c) == c \in {"-", "+"}

Digits(s) == IF Len(s) > 0 /\ IsSign(s[1]) THEN Tail(s) ELSE s

IsIntLiteral_unsigned(s) ==
    /\ Len(s) > 0
    /\ \A k \in 1..Len(s) : IsDigit(s[k])

\* int(s) succeeds: an optional sign followed by at least one decimal digit.
IsIntLiteral(s) ==
    /\ Len(Digits(s)) > 0
    /\ \A k \in 1..Len(Digits(s)) : IsDigit(Digits(s)[k])

RECURSIVE Magnitude(_)
Magnitude(d) ==
    IF Len(d) = 0 THEN 0
    ELSE 10 * Magnitude(SubSeq(d, 1, Len(d) - 1)) + DigitVal(d[Len(d)])

\* int(s) for a literal s.
IntOf(s) ==
    IF Len(s) > 0 /\ s[1] = "-" THEN 0 - Magnitude(Digits(s)) ELSE Magnitude(Digits(s))

\* isinstance(e, Exception): what "except Exception" catches.
IsException(e) == e.type \notin BaseOnlyTypes

StrRaises(v) == v = "Unprintable"

\* str(v), for a value whose __str__ returns.
Str(v) == CASE v = "V1" -> "1" [] v = "V2" -> "two" [] OTHER -> "?"

TransportError(to) == [type |-> "SMTPException", msg |-> to]

\* What str(value) raises for a value that cannot be rendered.
StrError == [type |-> "TypeError", msg |-> "__str__ returned non-string"]

\* What yagmail.SMTP raises when it is given no user and has none of its own.
YagmailUserError == [type |-> "FileNotFoundError", msg |-> "~/.yagmail"]

RankValueError == [type |-> "ValueError", msg |-> "invalid literal for int() with base 10"]

----------------------------------------------------------------------------
(* The caller's view of one invocation *)

NoResult == [kind |-> "none", value |-> NoneVal, exc |-> NoExc]
Returned(v) == [kind |-> "returned", value |-> v, exc |-> NoExc]
Raised(e) == [kind |-> "raised", value |-> NoneVal, exc |-> e]

----------------------------------------------------------------------------
(* create_yag_sender *)

create_yag_sender_last(recipients, sender) ==
    IF sender = NoneVal /\ Len(recipients) > 0 THEN recipients[Len(recipients)] ELSE sender

create_yag_sender_nodefault(recipients, sender) == sender

\* lines 13-14: the user handed to yagmail.SMTP
create_yag_sender(recipients, sender) ==
    IF sender = NoneVal /\ Len(recipients) > 0 THEN recipients[1] ELSE sender

\* line 15: yagmail.SMTP(user).  The library binds the handle to the user it is
\* given; given None it takes its own configured user, and raises without one.
YagmailSMTP(user, default) ==
    IF user # NoneVal THEN Returned(user)
    ELSE IF default # NoneVal THEN Returned(default)
    ELSE Raised(YagmailUserError)

----------------------------------------------------------------------------
(* wrapper_sender: RANK and the master decision *)

RankInEnviron(env) == \E p \in env : p[1] = "RANK"

RankOf(env) == (CHOOSE p \in env : p[1] = "RANK")[2]

MasterProcess_inverted(env) ==
    IF RankInEnviron(env) THEN IntOf(RankOf(env)) # 0 ELSE TRUE

MasterProcess_string(env) ==
    IF RankInEnviron(env) THEN RankOf(env) = <<"0">> ELSE TRUE

MasterProcess_cached(env) ==
    IF calls >= 1 THEN master_process
    ELSE IF RankInEnviron(env) THEN IntOf(RankOf(env)) = 0 ELSE TRUE

\* lines 52-56: master_process
MasterProcess(env) ==
    IF RankInEnviron(env) THEN IntOf(RankOf(env)) = 0 ELSE TRUE

\* lines 44 and 54: host_name, with the rank appended when RANK is set
HostName(env) ==
    [name |-> Host, rank |-> IF RankInEnviron(env) THEN {RankOf(env)} ELSE {}]

----------------------------------------------------------------------------
(* wrapper_sender: message bodies *)

Placeholder == "ERROR - Couldn't str the returned value."

EmptyContents ==
    [head |-> "", host |-> [name |-> "", rank |-> {}], returned |-> "", error |-> "",
     traceback |-> ""]

StartedContents(h) == [EmptyContents EXCEPT !.head = "Your training has started.", !.host = h]

\* lines 77-81: str(value), or the placeholder when str raises
RenderedValue(v) == IF StrRaises(v) THEN Placeholder ELSE Str(v)

SucceededContents(h, v) ==
    [EmptyContents EXCEPT !.head = "Your training is complete.", !.host = h,
                          !.returned = RenderedValue(v)]

\* lines 90-99: '%s' % ex is the message, traceback.format_exc() names the type
CrashedContents(h, e) ==
    [EmptyContents EXCEPT !.head = "Your training has crashed.", !.host = h,
                          !.error = e.msg, !.traceback = e.type]

\* line 63: 'Training has started'
StartedSubject == "started"

SucceededSubject_copied == "started"

\* line 83: 'Training has successfully finished'
SucceededSubject == "succeeded"

\* line 102: 'Training has crashed'
CrashedSubject == "crashed"

----------------------------------------------------------------------------
(* Events of one invocation *)

SendEvent(kind, to, body, ok) ==
    [ev |-> "send", kind |-> kind, to |-> to, contents |-> body, ok |-> ok]

FuncEvent(what) ==
    [ev |-> what, kind |-> "", to |-> "", contents |-> EmptyContents, ok |-> TRUE]

----------------------------------------------------------------------------
(* Loop bounds and exits *)

SendEmailLast_short(recipients) == Len(recipients) - 1

\* send_email, line 19: range(len(recipient_emails))
SendEmailLast(recipients) == Len(recipients)

CrashLoopLast_short(recipients) == Len(recipients) - 1

\* line 100: range(len(recipient_emails))
CrashLoopLast(recipients) == Len(recipients)

WrapperReturn_none(v) == Returned(NoneVal)

\* line 85: return value
WrapperReturn(v) == Returned(v)

HandlerExit_swallow(e) == Returned(NoneVal)

HandlerExit_wrapped(e) == Raised([type |-> "Exception", msg |-> e.msg])

\* line 103: raise ex
HandlerExit(e) == Raised(e)

BareExceptCatches_narrow(e) == e.type = "ValueError"

\* line 80: the bare "except:" around str(value) catches whatever str raises
BareExceptCatches(e) == TRUE

ExceptClauseCatches_all(e) == TRUE

\* line 87: except Exception as ex
ExceptClauseCatches(e) == IsException(e)

----------------------------------------------------------------------------
(* State before email_sender(recipient_emails, sender_email) is called *)

Init ==
    /\ recipient_emails \in RecipientLists
    /\ sender_email \in Senders \cup {NoneVal}
    /\ yag_sender = NoneVal
    /\ setup = NoResult
    /\ environ \in Environs
    /\ pc = "start"
    /\ master_process = FALSE
    /\ host_name = HostName({})
    /\ contents = EmptyContents
    /\ i = 0
    /\ value = NoneVal
    /\ ex = NoExc
    /\ result = NoResult
    /\ trace = <<>>
    /\ func_calls = 0
    /\ func_outcome = NoResult
    /\ entry_environ = {}
    /\ prev_master = "none"
    /\ calls = 0

closure == <<recipient_emails, sender_email, yag_sender, setup>>

\* email_sender, lines 24-37 and 105: build the handle and decorate func; when
\* yagmail.SMTP raises, email_sender raises and there is no wrapper to call.
\* The library's own user (~/.yagmail), or None, is the environment's choice.
EmailSender ==
    /\ pc = "start"
    /\ \E yag_default \in LibraryUsers \cup {NoneVal} :
         setup' = YagmailSMTP(create_yag_sender(recipient_emails, sender_email), yag_default)
    /\ IF setup'.kind = "returned"
         THEN yag_sender' = setup'.value /\ pc' = "idle"
         ELSE yag_sender' = yag_sender /\ pc' = "no_handle"
    /\ UNCHANGED <<recipient_emails, sender_email, environ, master_process,
                   host_name, contents, i, value, ex, result, trace, func_calls,
                   func_outcome, entry_environ, prev_master, calls>>

----------------------------------------------------------------------------
(* wrapper_sender, lines 43-63: entry, RANK, and the start of the "started" round *)

Call ==
    /\ pc \in {"idle", "done"}
    /\ calls < MaxCalls
    /\ calls' = calls + 1
    /\ entry_environ' = environ
    /\ prev_master' = IF calls = 0 THEN "none"
                      ELSE IF RankInEnviron(entry_environ)
                                /\ ~IsIntLiteral(RankOf(entry_environ))
                           THEN "error"
                      ELSE IF master_process THEN "master" ELSE "replica"
    /\ trace' = <<>>
    /\ func_calls' = 0
    /\ func_outcome' = NoResult
    /\ value' = NoneVal
    /\ ex' = NoExc
    /\ IF RankInEnviron(environ) /\ ~IsIntLiteral(RankOf(environ))
         THEN \* line 53: int() raises ValueError, outside the try
              /\ pc' = "done"
              /\ result' = Raised(RankValueError)
              /\ master_process' = FALSE
              /\ host_name' = HostName({})
              /\ contents' = EmptyContents
              /\ i' = 0
         ELSE /\ master_process' = MasterProcess(environ)
              /\ host_name' = HostName(environ)
              /\ result' = NoResult
              /\ IF master_process'
                   THEN /\ contents' = StartedContents(host_name')
                        /\ i' = 1
                        /\ pc' = IF SendEmailLast(recipient_emails) >= 1
                                 THEN "send_started" ELSE "call_func"
                   ELSE /\ contents' = EmptyContents
                        /\ i' = 0
                        /\ pc' = "call_func"
    /\ UNCHANGED <<closure, environ>>

\* send_email (lines 18-21) called from line 63: one yag_sender.send, which
\* returns or raises; a raise leaves wrapper_sender (line 63 is outside the try).
SendStarted ==
    /\ pc = "send_started"
    /\ \E ok \in BOOLEAN :
         /\ trace' = Append(trace, SendEvent(StartedSubject, recipient_emails[i], contents, ok))
         /\ IF ok
              THEN /\ result' = result
                   /\ IF i < SendEmailLast(recipient_emails)
                        THEN i' = i + 1 /\ pc' = pc
                        ELSE i' = i /\ pc' = "call_func"
              ELSE /\ result' = Raised(TransportError(recipient_emails[i]))
                   /\ pc' = "done"
                   /\ i' = i
    /\ UNCHANGED <<closure, environ, master_process, host_name, contents, value, ex,
                   func_calls, func_outcome, entry_environ, prev_master, calls>>

\* line 65: func(*args, **kwargs) is entered
InvokeFunc ==
    /\ pc = "call_func"
    /\ pc' = "running"
    /\ func_calls' = func_calls + 1
    /\ trace' = Append(trace, FuncEvent("func_enter"))
    /\ UNCHANGED <<closure, environ, master_process, host_name, contents, i, value, ex,
                   result, func_outcome, entry_environ, prev_master, calls>>

\* os.environ is process state: func, or the program between two invocations,
\* may set or delete RANK.
SetRank ==
    /\ pc \in {"running", "done"}
    /\ \E env \in Environs : env # environ /\ environ' = env
    /\ UNCHANGED <<closure, pc, master_process, host_name, contents, i, value, ex, result,
                   trace, func_calls, func_outcome, entry_environ, prev_master, calls>>

\* The except clause (lines 87-103) is entered with exception e: build the body,
\* then the crash loop; with no recipient the loop is empty and line 103 raises.
EnterHandler(e) ==
    /\ ex' = e
    /\ contents' = CrashedContents(host_name, e)
    /\ IF CrashLoopLast(recipient_emails) >= 1
         THEN pc' = "send_crashed" /\ i' = 1 /\ result' = result
         ELSE pc' = "done" /\ i' = i /\ result' = HandlerExit(e)

\* lines 65-85: func returns v
FuncReturns ==
    /\ pc = "running"
    /\ \E v \in Values :
         /\ value' = v
         /\ func_outcome' = Returned(v)
         /\ trace' = Append(trace, FuncEvent("func_return"))
         /\ IF master_process
              THEN IF StrRaises(v) /\ ~BareExceptCatches(StrError)
                   THEN \* str's exception would leave the inner try (lines 77-81)
                        IF ExceptClauseCatches(StrError)
                        THEN EnterHandler(StrError)
                        ELSE /\ pc' = "done"
                             /\ result' = Raised(StrError)
                             /\ UNCHANGED <<ex, contents, i>>
                   ELSE /\ contents' = SucceededContents(host_name, v)
                        /\ ex' = ex
                        /\ IF SendEmailLast(recipient_emails) >= 1
                             THEN pc' = "send_succeeded" /\ i' = 1 /\ result' = result
                             ELSE pc' = "done" /\ i' = i /\ result' = WrapperReturn(v)
              ELSE /\ UNCHANGED <<ex, contents, i>>
                   /\ pc' = "done"
                   /\ result' = WrapperReturn(v)
    /\ UNCHANGED <<closure, environ, master_process, host_name, func_calls,
                   entry_environ, prev_master, calls>>

\* line 65 raises e: caught by line 87 when e is an Exception, else it leaves
\* wrapper_sender as it is.
FuncRaises ==
    /\ pc = "running"
    /\ \E e \in FuncExceptions :
         /\ func_outcome' = Raised(e)
         /\ trace' = Append(trace, FuncEvent("func_raise"))
         /\ IF ExceptClauseCatches(e)
              THEN EnterHandler(e)
              ELSE /\ pc' = "done"
                   /\ result' = Raised(e)
                   /\ UNCHANGED <<ex, contents, i>>
    /\ UNCHANGED <<closure, environ, master_process, host_name, value, func_calls,
                   entry_environ, prev_master, calls>>

\* send_email called from line 83, inside the try: a raise of yag_sender.send is
\* an Exception and is caught by line 87.
SendSucceeded ==
    /\ pc = "send_succeeded"
    /\ \E ok \in BOOLEAN :
         /\ trace' = Append(trace, SendEvent(SucceededSubject, recipient_emails[i], contents, ok))
         /\ IF ok
              THEN /\ UNCHANGED <<ex, contents>>
                   /\ IF i < SendEmailLast(recipient_emails)
                        THEN i' = i + 1 /\ pc' = pc /\ result' = result
                        ELSE i' = i /\ pc' = "done" /\ result' = WrapperReturn(value)
              ELSE IF ExceptClauseCatches(TransportError(recipient_emails[i]))
                   THEN EnterHandler(TransportError(recipient_emails[i]))
                   ELSE /\ pc' = "done"
                        /\ result' = Raised(TransportError(recipient_emails[i]))
                        /\ UNCHANGED <<ex, contents, i>>
    /\ UNCHANGED <<closure, environ, master_process, host_name, value, func_calls,
                   func_outcome, entry_environ, prev_master, calls>>

\* lines 100-103: one yag_sender.send of the crash loop, then raise ex; a raise
\* of send inside the handler leaves wrapper_sender with the send's exception.
SendCrashed ==
    /\ pc = "send_crashed"
    /\ \E ok \in BOOLEAN :
         /\ trace' = Append(trace, SendEvent(CrashedSubject, recipient_emails[i], contents, ok))
         /\ IF ok
              THEN IF i < CrashLoopLast(recipient_emails)
                   THEN i' = i + 1 /\ pc' = pc /\ result' = result
                   ELSE i' = i /\ pc' = "done" /\ result' = HandlerExit(ex)
              ELSE /\ i' = i
                   /\ pc' = "done"
                   /\ result' = Raised(TransportError(recipient_emails[i]))
    /\ UNCHANGED <<closure, environ, master_process, host_name, contents, value, ex,
                   func_calls, func_outcome, entry_environ, prev_master, calls>>

Next ==
    \/ EmailSender
    \/ Call
    \/ SendStarted
    \/ InvokeFunc
    \/ SetRank
    \/ FuncReturns
    \/ FuncRaises
    \/ SendSucceeded
    \/ SendCrashed

Spec == Init /\ [][Next]_vars

----------------------------------------------------------------------------
(* Reading one invocation's trace *)

Done == pc = "done"

SendEvents == SelectSeq(trace, LAMBDA e : e.ev = "send")

Sends(kind) == SelectSeq(trace, LAMBDA e : e.ev = "send" /\ e.kind = kind)

Tos(s) == [k \in 1..Len(s) |-> s[k].to]

Kinds(s) == [k \in 1..Len(s) |-> s[k].kind]

AllOk(s) == \A k \in 1..Len(s) : s[k].ok

Repeat(x, n) == [k \in 1..n |-> x]

FuncReturned == func_outcome.kind = "returned"

FuncRaised == func_outcome.kind = "raised"

EntryRankUnset == ~RankInEnviron(entry_environ)

EntryRankIsInt == RankInEnviron(entry_environ) /\ IsIntLiteral(RankOf(entry_environ))

EntryRankNonZero == EntryRankIsInt /\ IntOf(RankOf(entry_environ)) # 0

----------------------------------------------------------------------------
(* Claims *)

\* C1: for a non-empty recipient list and any RANK, when func returns V and
\* every mail send succeeds, the wrapped call returns exactly V.
C1_ReturnsValueUnchanged ==
    (Done /\ Len(recipient_emails) >= 1 /\ FuncReturned /\ AllOk(SendEvents))
        => result = Returned(func_outcome.value)

C1_Witness ==
    /\ Done /\ Len(recipient_emails) = 2 /\ FuncReturned /\ func_outcome.value = "V2"
    /\ Len(SendEvents) = 4 /\ AllOk(SendEvents)
    /\ result = Returned("V2")

\* C2: for every recipient list (the empty one too) and any RANK, when func
\* raises E and every mail send succeeds, the wrapped call raises that same E.
C2_RaisesSameException ==
    (Done /\ FuncRaised /\ AllOk(SendEvents)) => result = Raised(func_outcome.exc)

C2_Witness ==
    /\ Done /\ FuncRaised /\ func_outcome.exc.type = "ZeroDivisionError"
    /\ Len(recipient_emails) = 1 /\ Len(Sends("crashed")) = 1 /\ AllOk(SendEvents)
    /\ result.kind = "raised" /\ result.exc.type = "ZeroDivisionError"
    /\ result.exc.msg = "division by zero"

\* C3 as claimed: whenever func raises, a crashed notification has been sent to
\* every recipient exactly once, in list order, when the exception propagates.
C3_CrashSentToAllAlways ==
    (Done /\ FuncRaised)
        => /\ Tos(Sends("crashed")) = recipient_emails
           /\ AllOk(Sends("crashed"))

\* C3 amended: whenever func raises an instance of Exception and no crash send
\* fails, a crashed notification carrying that exception is sent to every
\* recipient exactly once, in list order, before it propagates, whatever the rank.
C3_CrashSentToAll ==
    (Done /\ FuncRaised /\ IsException(func_outcome.exc) /\ AllOk(Sends("crashed")))
        => /\ Tos(Sends("crashed")) = recipient_emails
           /\ \A k \in 1..Len(Sends("crashed")) :
                Sends("crashed")[k].contents = CrashedContents(host_name, func_outcome.exc)
           /\ result = Raised(func_outcome.exc)

C3_Witness ==
    /\ Done /\ FuncRaised /\ func_outcome.exc.type = "ZeroDivisionError"
    /\ EntryRankNonZero /\ ~master_process
    /\ Len(recipient_emails) = 2
    /\ Tos(Sends("crashed")) = recipient_emails /\ AllOk(Sends("crashed"))
    /\ Sends("crashed")[1].contents.traceback = "ZeroDivisionError"

\* C4: RANK unset, func returns, every send succeeds: exactly 2 * len(recipients)
\* sends, a full started round followed by a full succeeded round, no crashed send.
C4_TwoRoundsWhenRankUnset ==
    (Done /\ EntryRankUnset /\ FuncReturned /\ AllOk(SendEvents))
        => /\ Len(SendEvents) = 2 * Len(recipient_emails)
           /\ Tos(SendEvents) = recipient_emails \o recipient_emails
           /\ Kinds(SendEvents) = Repeat("started", Len(recipient_emails))
                                     \o Repeat("succeeded", Len(recipient_emails))

C4_Witness ==
    /\ Done /\ EntryRankUnset /\ FuncReturned /\ AllOk(SendEvents)
    /\ Len(recipient_emails) = 2 /\ Len(SendEvents) = 4

\* C5: RANK set to a non-zero rank and func returns: no send of any kind, func
\* invoked (once) and its value returned.
C5_NonMasterSilentOnSuccess ==
    (Done /\ EntryRankNonZero /\ FuncReturned)
        => /\ SendEvents = <<>>
           /\ func_calls = 1
           /\ result = Returned(func_outcome.value)

C5_Witness ==
    /\ Done /\ entry_environ = {<<"RANK", <<"1">> >>} /\ FuncReturned
    /\ Len(recipient_emails) = 2 /\ result = Returned("V1")

\* C6 as claimed: an exception E raised by func is always the exception that
\* propagates, whether the crash sends succeed or fail.
C6_AlwaysReraisesOriginal ==
    (Done /\ FuncRaised) => result = Raised(func_outcome.exc)

\* C6 amended: E propagates unmodified when every crash send succeeds (and
\* without a crash step when E is no instance of Exception); when a crash send
\* fails, that send's exception propagates instead of E.
C6_ReraisesUnlessCrashSendFails ==
    (Done /\ FuncRaised)
        => /\ AllOk(Sends("crashed")) => result = Raised(func_outcome.exc)
           /\ ~AllOk(Sends("crashed")) =>
                /\ IsException(func_outcome.exc)
                /\ result = Raised(TransportError(trace[Len(trace)].to))
                /\ ~trace[Len(trace)].ok
           /\ ~IsException(func_outcome.exc) => Sends("crashed") = <<>>

C6_Witness ==
    /\ Done /\ FuncRaised /\ func_outcome.exc.type = "RuntimeError"
    /\ Len(Sends("crashed")) = 2 /\ ~AllOk(Sends("crashed"))
    /\ result.exc.type = "SMTPException"

\* C7: whenever func raises, the wrapped call never returns normally, for every
\* rank, recipient list and outcome of the sends.
C7_NeverSwallowed ==
    FuncRaised => (result.kind # "returned" /\ (Done => result.kind = "raised"))

C7_Witness ==
    /\ Done /\ FuncRaised /\ ~AllOk(SendEvents) /\ result.kind = "raised"

\* C8: no invocation both sends a succeeded notification to some recipient and
\* sends a crashed notification to some recipient, also when sends may fail.
C8_SucceededAndCrashedExclusive ==
    ~( /\ \E k \in 1..Len(trace) :
             trace[k].ev = "send" /\ trace[k].kind = "succeeded" /\ trace[k].ok
       /\ \E k \in 1..Len(trace) :
             trace[k].ev = "send" /\ trace[k].kind = "crashed" /\ trace[k].ok )

\* C9 as claimed: RANK absent or equal to "0" means master; RANK present with any
\* other value means non-master: no started or succeeded send, func still invoked.
C9_OnlyStringZeroIsMaster ==
    Done =>
        /\ (EntryRankUnset \/ entry_environ = {<<"RANK", <<"0">> >>}) => master_process
        /\ (RankInEnviron(entry_environ) /\ RankOf(entry_environ) # <<"0">>)
              => /\ Sends("started") = <<>>
                 /\ Sends("succeeded") = <<>>
                 /\ func_calls = 1

\* C9 amended: RANK absent means master; RANK that int() reads as 0 ("0", and
\* also "00" or "-0") means master; RANK that int() reads as non-zero means
\* non-master (no started or succeeded send, func still invoked); RANK that is
\* no integer literal makes the call raise ValueError before any send and
\* without invoking func.
C9_MasterIffRankParsesToZero ==
    (calls >= 1) =>
        /\ EntryRankUnset => master_process
        /\ EntryRankIsInt => (master_process <=> IntOf(RankOf(entry_environ)) = 0)
        /\ (Done /\ EntryRankNonZero)
              => /\ Sends("started") = <<>>
                 /\ Sends("succeeded") = <<>>
                 /\ func_calls = 1
        /\ (RankInEnviron(entry_environ) /\ ~EntryRankIsInt)
              => /\ Done
                 /\ result = Raised(RankValueError)
                 /\ trace = <<>>
                 /\ func_calls = 0

C9_Witness ==
    /\ Done /\ entry_environ = {<<"RANK", <<"0", "0">> >>} /\ master_process
    /\ Len(recipient_emails) = 1 /\ Len(Sends("started")) = 1 /\ FuncReturned

\* C10 as claimed: when str(V) raises in a master invocation, the succeeded
\* notification is sent to all recipients with the placeholder, no crashed
\* notification is sent, and V is returned.
C10_PlaceholderAlways ==
    (Done /\ FuncReturned /\ StrRaises(func_outcome.value) /\ master_process)
        => /\ Tos(Sends("succeeded")) = recipient_emails
           /\ AllOk(Sends("succeeded"))
           /\ Sends("crashed") = <<>>
           /\ result = Returned(func_outcome.value)

\* C10 amended: when str(V) raises in a master invocation, every succeeded
\* notification carries the placeholder and the rendering error never reaches
\* the caller; when moreover every succeeded send succeeds, the notification
\* goes to all recipients, no crashed notification is sent and V is returned.
C10_PlaceholderWhenSendsSucceed ==
    (FuncReturned /\ StrRaises(func_outcome.value) /\ master_process)
        => /\ \A k \in 1..Len(Sends("succeeded")) :
                Sends("succeeded")[k].contents.returned = Placeholder
           /\ result.exc # StrError
           /\ ex # StrError
           /\ (Done /\ AllOk(Sends("succeeded")))
                => /\ Tos(Sends("succeeded")) = recipient_emails
                   /\ Sends("crashed") = <<>>
                   /\ result = Returned(func_outcome.value)

C10_Witness ==
    /\ Done /\ FuncReturned /\ func_outcome.value = "Unprintable" /\ master_process
    /\ Len(recipient_emails) = 2 /\ Len(Sends("succeeded")) = 2 /\ AllOk(SendEvents)
    /\ Sends("succeeded")[2].contents.returned = Placeholder
    /\ result = Returned("Unprintable")

\* C11: send_email (the started and the succeeded round) sends the same message
\* to the recipients one by one in list order; when the send to recipient i
\* fails the failure leaves send_email at once: the recipients before i were
\* each sent to once, and no send is attempted to a recipient after i.
C11_SendEmailInOrderAbortsOnFailure ==
    /\ \A kind \in {"started", "succeeded"} :
         LET s == Sends(kind) IN
           /\ Len(s) <= Len(recipient_emails)
           /\ \A k \in 1..Len(s) :
                /\ s[k].to = recipient_emails[k]
                /\ s[k].contents = s[1].contents
                /\ k < Len(s) => s[k].ok
    /\ LET s == Sends("started") IN
         /\ (Len(s) > 0 /\ ~s[Len(s)].ok)
               => (Done /\ result = Raised(TransportError(s[Len(s)].to)))
         /\ func_calls >= 1 /\ master_process
               => (Tos(s) = recipient_emails /\ AllOk(s))
    /\ LET s == Sends("succeeded") IN
         /\ (Len(s) > 0 /\ ~s[Len(s)].ok)
               => (pc \in {"send_crashed", "done"} /\ ex = TransportError(s[Len(s)].to))
         /\ (Done /\ master_process /\ result.kind = "returned")
               => (Tos(s) = recipient_emails /\ AllOk(s))

C11_Witness ==
    /\ Done /\ Len(recipient_emails) = 2
    /\ Len(Sends("started")) = 2 /\ AllOk(Sends("started"))
    /\ Len(Sends("succeeded")) = 1 /\ ~Sends("succeeded")[1].ok
    /\ Sends("succeeded")[1].to = recipient_emails[1]

\* C12: func returns V in a master invocation and a succeeded send fails: the
\* wrapped call does not return V, it raises a mail-send error.
C12_SendFailureLosesResult ==
    (Done /\ FuncReturned /\ ~AllOk(Sends("succeeded")))
        => /\ master_process
           /\ result.kind = "raised"
           /\ result.exc.type = "SMTPException"

C12_Witness ==
    /\ Done /\ FuncReturned /\ func_outcome.value = "V1" /\ master_process
    /\ Len(Sends("succeeded")) = 2 /\ ~Sends("succeeded")[2].ok
    /\ AllOk(Sends("crashed")) /\ Len(Sends("crashed")) = 2
    /\ result = Raised(TransportError(recipient_emails[2]))

\* C13: with the sender omitted and a non-empty recipient list the handle is
\* bound to the first recipient; with an explicit sender it is bound to that
\* sender, whatever the recipients are.
C13_SenderDefaulting ==
    (pc # "start")
        => /\ (sender_email = NoneVal /\ Len(recipient_emails) > 0)
                 => /\ setup = Returned(recipient_emails[1])
                    /\ yag_sender = recipient_emails[1]
           /\ (sender_email # NoneVal)
                 => /\ setup = Returned(sender_email)
                    /\ yag_sender = sender_email

C13_Witness ==
    /\ pc = "idle" /\ sender_email = NoneVal
    /\ recipient_emails = <<"a@x.com", "b@x.com">>
    /\ yag_sender = "a@x.com"

C15_SendFailureEndsInvocation ==
    \A k \in 1..Len(trace) :
        (trace[k].ev = "send" /\ trace[k].kind \in {"started", "succeeded"} /\ ~trace[k].ok)
            => /\ k = Len(trace)
               /\ Done
               /\ result = Raised(TransportError(trace[k].to))

\* C16 as claimed: in every invocation func is invoked exactly once, never zero
\* times, whatever the rank and the outcome of the started sends.
C16_FuncInvokedExactlyOnce ==
    Done => func_calls = 1

\* C16 amended: func is invoked at most once per invocation, and exactly once
\* unless the invocation ends before line 65: when a started send fails or RANK
\* is no integer literal (here the empty string or "x"), func is not invoked.
C16_FuncInvokedOnceUnlessEntryFails ==
    /\ func_calls <= 1
    /\ pc \in {"running", "send_succeeded", "send_crashed"} => func_calls = 1
    /\ pc \in {"start", "idle", "no_handle", "send_started", "call_func"} => func_calls = 0
    /\ Done =>
         (func_calls = 0 <=>
            \/ ~AllOk(Sends("started"))
            \/ RankInEnviron(entry_environ) /\ RankOf(entry_environ) \in {<<>>, <<"x">>})

C16_Witness ==
    /\ Done /\ func_calls = 0 /\ Len(recipient_emails) = 2
    /\ Len(Sends("started")) = 2 /\ ~Sends("started")[2].ok
    /\ result = Raised(TransportError(recipient_emails[2]))

FuncExited(k) == \E j \in 1..(k - 1) : trace[j].ev \in {"func_return", "func_raise"}

OnlyStartedBefore(k) ==
    \A j \in 1..(k - 1) : trace[j].ev = "send" /\ trace[j].kind = "started"

TraceOrdered ==
    \A k \in 1..Len(trace) :
        /\ (trace[k].ev = "send" /\ trace[k].kind = "started") => OnlyStartedBefore(k)
        /\ trace[k].ev = "func_enter" => OnlyStartedBefore(k)
        /\ (trace[k].ev = "send" /\ trace[k].kind \in {"succeeded", "crashed"})
              => FuncExited(k)
        /\ trace[k].ev \in {"func_return", "func_raise"}
              => (k > 1 /\ trace[k - 1].ev = "func_enter")

\* C17: within one invocation every started send precedes the call of func,
\* every succeeded or crashed send follows the return or raise of func, no
\* started send follows a succeeded or crashed send, and every send happens
\* before the wrapped call returns or raises to its caller.
C17_SendOrdering ==
    /\ []TraceOrdered
    /\ [][(trace' # trace /\ trace' # <<>>) => (pc # "done" /\ result.kind = "none")]_vars
    /\ [](result.kind # "none" => Done)

C17_Witness ==
    /\ Done /\ Len(recipient_emails) = 2 /\ Len(trace) = 8
    /\ Len(Sends("started")) = 2 /\ Len(Sends("succeeded")) = 2 /\ Len(Sends("crashed")) = 2
    /\ trace[3].ev = "func_enter" /\ trace[4].ev = "func_return"

\* C18: master status is decided once per invocation, at entry, from RANK as it
\* is then: a succeeded notification is sent only if the started round went to
\* all recipients in the same invocation, even if RANK changes while func runs,
\* and a later invocation reads RANK again.
C18_MasterDecidedAtEntry ==
    /\ (calls >= 1 /\ ~RankInEnviron(entry_environ)) => master_process
    /\ (calls >= 1 /\ EntryRankIsInt)
          => (master_process <=> RankOf(entry_environ) \in {<<"0">>, <<"0", "0">>, <<"-", "0">>})
    /\ Sends("succeeded") # <<>>
          => /\ master_process
             /\ Tos(Sends("started")) = recipient_emails
             /\ AllOk(Sends("started"))

C18_Witness ==
    /\ calls = 2 /\ prev_master = "replica" /\ master_process /\ Done
    /\ entry_environ = {<<"RANK", <<"0">> >>} /\ environ = {<<"RANK", <<"1">> >>}
    /\ Len(recipient_emails) = 2
    /\ Len(Sends("succeeded")) = 2 /\ AllOk(Sends("succeeded"))

====
